---- MODULE Spec2Model ----
(***************************************************************************)
(* Model of the HLA typing report scripts generate_html_table.py and       *)
(* merge_results.py: the four extractors, the file discovery done by the   *)
(* collectors, and the two table renderers.                                *)
(*                                                                         *)
(* Text is modelled as sequences of one-character strings, so that strip,  *)
(* split, replace, startswith, int() and float() are computed character by *)
(* character as Python computes them.  Sample names and file names are     *)
(* modelled by natural numbers whose order is the lexicographic order of   *)
(* the names.                                                              *)
(***************************************************************************)
EXTENDS Integers, Sequences, FiniteSets, TLC

VARIABLES
    prog,         \* the script or extractor being run
    pc,           \* control location of the run
    fs,           \* the directory tree the run reads
    input,        \* the text handed to an extractor
    idx,          \* loop position: matches / lines / samples already processed
    results,      \* the extractor's results dict
    all_data,     \* generate_html_table.py: sample -> gene -> list of calls
    samples,      \* generate_html_table.py: list of collected sample names
    picked,       \* the artifact chosen by each glob()[0], with its candidates
    docs,         \* documents written so far
    exit_status   \* process exit status once pc = "exit"

vars == <<prog, pc, fs, input, idx, results, all_data, samples, picked, docs, exit_status>>

(***************************************************************************)
(* Bounds                                                                  *)
(***************************************************************************)
MaxLines == 2      \* lines of text handed to an extractor
MaxSamples == 2    \* entries under the input root
MaxFiles == 2      \* candidate files matching one glob pattern

(***************************************************************************)
(* Characters and strings                                                  *)
(***************************************************************************)
Ord(c) ==
    CASE c = "\t" -> 9   [] c = " " -> 32  [] c = "*" -> 42  [] c = "-" -> 45
      [] c = "." -> 46   [] c = "0" -> 48  [] c = "1" -> 49  [] c = "2" -> 50
      [] c = "3" -> 51   [] c = "4" -> 52  [] c = "5" -> 53  [] c = "6" -> 54
      [] c = "7" -> 55   [] c = "8" -> 56  [] c = "9" -> 57  [] c = ":" -> 58
      [] c = "A" -> 65   [] c = "B" -> 66  [] c = "C" -> 67  [] c = "G" -> 71
      [] c = "H" -> 72   [] c = "L" -> 76  [] c = "N" -> 78  [] c = "a" -> 97
      [] c = "d" -> 100  [] c = "e" -> 101 [] c = "o" -> 111 [] c = "p" -> 112
      [] c = "t" -> 116  [] c = "y" -> 121

IsDigit(c) == Ord(c) \in 48..57
IsUpper(c) == Ord(c) \in 65..90
IsSpace(c) == c \in {" ", "\t"}

EmptyDict == [g \in {} |-> <<>>]

Put(d, k, v) == [x \in (DOMAIN d) \cup {k} |-> IF x = k THEN v ELSE d[x]]

\* lexicographic order of two strings, as Python compares str
RECURSIVE StrLess(_, _)
StrLess(a, b) ==
    IF b = <<>> THEN FALSE
    ELSE IF a = <<>> THEN TRUE
    ELSE IF Ord(Head(a)) < Ord(Head(b)) THEN TRUE
    ELSE IF Ord(Head(a)) > Ord(Head(b)) THEN FALSE
    ELSE StrLess(Tail(a), Tail(b))

\* str.strip(): leading and trailing whitespace removed
RECURSIVE LStrip(_)
LStrip(s) == IF s # <<>> /\ IsSpace(Head(s)) THEN LStrip(Tail(s)) ELSE s

RECURSIVE RStrip(_)
RStrip(s) ==
    IF s # <<>> /\ IsSpace(s[Len(s)]) THEN RStrip(SubSeq(s, 1, Len(s) - 1)) ELSE s

Strip(s) == RStrip(LStrip(s))

\* str.split('\t'): the list of fields between tabs, always at least one
RECURSIVE SplitTab(_, _, _)
SplitTab(s, cur, acc) ==
    IF s = <<>> THEN Append(acc, cur)
    ELSE IF Head(s) = "\t" THEN SplitTab(Tail(s), <<>>, Append(acc, cur))
    ELSE SplitTab(Tail(s), Append(cur, Head(s)), acc)

Split(s) == SplitTab(s, <<>>, <<>>)

\* str.replace(c, ''): every occurrence of c removed
RECURSIVE RemoveAll(_, _)
RemoveAll(s, c) ==
    IF s = <<>> THEN <<>>
    ELSE IF Head(s) = c THEN RemoveAll(Tail(s), c)
    ELSE <<Head(s)>> \o RemoveAll(Tail(s), c)

StartsWith(s, p) == Len(s) >= Len(p) /\ SubSeq(s, 1, Len(p)) = p

HLA == <<"H", "L", "A", "-">>

\* int(tok) for a token of digits
RECURSIVE ParseInt(_)
ParseInt(tok) ==
    IF tok = <<>> THEN 0
    ELSE ParseInt(SubSeq(tok, 1, Len(tok) - 1)) * 10 + (Ord(tok[Len(tok)]) - 48)

\* float(tok) for a token over digits and dots: raises ValueError unless the
\* token has at least one digit and at most one dot.  The value is kept in
\* hundredths (tokens of the model have at most two fractional digits).
ParseFloat(tok) ==
    LET dots   == {i \in 1..Len(tok) : tok[i] = "."}
        digits == {i \in 1..Len(tok) : IsDigit(tok[i])}
        dot    == IF dots = {} THEN Len(tok) + 1 ELSE CHOOSE i \in dots : TRUE
        whole  == SubSeq(tok, 1, dot - 1)
        frac   == SubSeq(tok, dot + 1, Len(tok))
        frac2  == SubSeq(frac \o <<"0", "0">>, 1, 2)
    IN  IF Cardinality(dots) > 1 \/ digits = {}
        THEN [ok |-> FALSE, value |-> 0]
        ELSE [ok |-> TRUE, value |-> ParseInt(whole) * 100 + ParseInt(frac2)]

(***************************************************************************)
(* Ranked-report text.  A line of a report is modelled by the four tokens  *)
(* of "<rank> ranked <gene>*<allele> (abundance: <abundance>%)".           *)
(***************************************************************************)
RankTokens == {<<"1">>, <<"2">>, <<"3">>}
GeneTokens == {<<"A">>, <<"B">>, <<"a">>}
AlleleTokens == {<<"0", "1", ":", "0", "1">>}
AbundanceTokens == {<<"5", "5", ".", "5", "0">>, <<"7">>, <<"1", ".", "2", ".", "3">>, <<".">>}

ReportLines ==
    [rank : RankTokens, gene : GeneTokens, allele : AlleleTokens, abundance : AbundanceTokens]

SeqsUpTo(S, n) == UNION {[1..k -> S] : k \in 0..n}

\* the regular expression (\d+) ranked ([A-Z0-9]+)\*([^\s]+) \(abundance: ([\d.]+)%\)
PatternMatches(line) ==
    /\ line.rank # <<>> /\ IsDigit(line.rank[Len(line.rank)])
    /\ line.gene # <<>>
    /\ \A i \in 1..Len(line.gene) : IsDigit(line.gene[i]) \/ IsUpper(line.gene[i])
    /\ line.allele # <<>>
    /\ \A i \in 1..Len(line.allele) : ~IsSpace(line.allele[i])
    /\ line.abundance # <<>>
    /\ \A i \in 1..Len(line.abundance) : IsDigit(line.abundance[i]) \/ line.abundance[i] = "."

\* group 1 is the longest run of digits that ends the rank token
RECURSIVE DigitSuffix(_)
DigitSuffix(tok) ==
    IF tok = <<>> \/ ~IsDigit(tok[Len(tok)]) THEN <<>>
    ELSE Append(DigitSuffix(SubSeq(tok, 1, Len(tok) - 1)), tok[Len(tok)])

\* re.findall(pattern, content): the matches in encounter order
RECURSIVE Findall(_)
Findall(content) ==
    IF content = <<>> THEN <<>>
    ELSE IF PatternMatches(Head(content))
         THEN <<[rank |-> DigitSuffix(Head(content).rank), gene |-> Head(content).gene,
                 allele |-> Head(content).allele, abundance |-> Head(content).abundance]>>
              \o Findall(Tail(content))
         ELSE Findall(Tail(content))

\* parse_report_file keeping only the top 2 ranks, as parse_hisat_report does
ReportMatchTop2(st, m) ==
    LET r1 == IF m.gene \in DOMAIN st.results THEN st.results
              ELSE Put(st.results, m.gene, <<>>)
        ab == ParseFloat(m.abundance)
    IN  IF ~st.ok THEN st
        ELSE IF ~(ParseInt(m.rank) <= 2) THEN [ok |-> TRUE, results |-> r1]
        ELSE IF ~ab.ok THEN [ok |-> FALSE, results |-> r1]
        ELSE [ok |-> TRUE,
              results |-> Put(r1, m.gene,
                              Append(r1[m.gene], [rank |-> ParseInt(m.rank),
                                                  allele |-> m.allele,
                                                  abundance |-> ab.value]))]

\* generate_html_table.py, body of the loop of parse_report_file
ReportMatch(st, m) ==
    LET r1 == IF m.gene \in DOMAIN st.results THEN st.results
              ELSE Put(st.results, m.gene, <<>>)
        ab == ParseFloat(m.abundance)
    IN  IF ~st.ok THEN st
        ELSE IF ~ab.ok THEN [ok |-> FALSE, results |-> r1]
        ELSE [ok |-> TRUE,
              results |-> Put(r1, m.gene,
                              Append(r1[m.gene], [rank |-> ParseInt(m.rank),
                                                  allele |-> m.allele,
                                                  abundance |-> ab.value]))]

\* parse_hisat_report skipping a match whose abundance does not parse
HisatMatchSkipMalformed(st, m) ==
    LET r1 == IF m.gene \in DOMAIN st.results THEN st.results
              ELSE Put(st.results, m.gene, <<>>)
        ab == ParseFloat(m.abundance)
    IN  IF ~st.ok THEN st
        ELSE IF ~(ParseInt(m.rank) <= 2) \/ ~ab.ok THEN [ok |-> TRUE, results |-> r1]
        ELSE [ok |-> TRUE,
              results |-> Put(r1, m.gene,
                              Append(r1[m.gene], [rank |-> ParseInt(m.rank),
                                                  allele |-> HLA \o m.gene \o <<"*">> \o m.allele,
                                                  abundance |-> ab.value]))]

\* merge_results.py, body of the loop of parse_hisat_report
HisatMatch(st, m) ==
    LET r1 == IF m.gene \in DOMAIN st.results THEN st.results
              ELSE Put(st.results, m.gene, <<>>)
        ab == ParseFloat(m.abundance)
    IN  IF ~st.ok THEN st
        ELSE IF ~(ParseInt(m.rank) <= 2) THEN [ok |-> TRUE, results |-> r1]
        ELSE IF ~ab.ok THEN [ok |-> FALSE, results |-> r1]
        ELSE [ok |-> TRUE,
              results |-> Put(r1, m.gene,
                              Append(r1[m.gene], [rank |-> ParseInt(m.rank),
                                                  allele |-> HLA \o m.gene \o <<"*">> \o m.allele,
                                                  abundance |-> ab.value]))]

\* "for rank, gene, allele, abundance in matches" of extractor fn
RECURSIVE ForMatches(_, _, _)
ForMatches(fn, st, ms) ==
    IF ms = <<>> THEN st
    ELSE ForMatches(fn, IF fn = "parse_report_file" THEN ReportMatch(st, Head(ms))
                        ELSE HisatMatch(st, Head(ms)),
                    Tail(ms))

Fresh == [ok |-> TRUE, results |-> EmptyDict]

parse_report_file(content) == ForMatches("parse_report_file", Fresh, Findall(content))

parse_hisat_report(content) == ForMatches("parse_hisat_report", Fresh, Findall(content))

(***************************************************************************)
(* Tab-separated text.  A file is the sequence of its lines, each a string *)
(* without its line terminator.                                            *)
(***************************************************************************)
RECURSIVE JoinTab(_)
JoinTab(cols) ==
    IF cols = <<>> THEN <<>>
    ELSE IF Len(cols) = 1 THEN cols[1]
    ELSE cols[1] \o <<"\t">> \o JoinTab(Tail(cols))

GeneA == <<"A">>
GeneB == <<"B">>
GeneC == <<"C">>
Dash == <<"-">>
NotTyped == <<"N", "o", "t", " ", "t", "y", "p", "e", "d">>
A0101 == <<"A", "*", "0", "1", ":", "0", "1">>

EstimationLines ==
    {JoinTab(<<g, a1, a2>>) : g \in {GeneA, GeneB}, a1 \in {A0101, Dash, NotTyped},
                              a2 \in {A0101, NotTyped, <<>>, <<" ", "-">>}}
    \cup {JoinTab(<<GeneA, A0101>>), GeneA, <<>>, <<" ">>}

\* parse_estimation_result without the 'Not typed' test on the second allele
EstimationLineKeepNotTyped(res, raw) ==
    LET line    == Strip(raw)
        parts   == Split(line)
        gene    == Strip(parts[1])
        allele1 == Strip(parts[2])
        allele2 == Strip(parts[3])
        l1      == IF allele1 # <<>> /\ allele1 # Dash /\ allele1 # NotTyped
                   THEN <<allele1>> ELSE <<>>
        l2      == IF allele2 # <<>> /\ allele2 # Dash THEN Append(l1, allele2) ELSE l1
    IN  IF line = <<>> THEN res
        ELSE IF Len(parts) >= 3 THEN Put(res, gene, l2)
        ELSE res

\* merge_results.py, body of the loop of parse_estimation_result
EstimationLine(res, raw) ==
    LET line    == Strip(raw)
        parts   == Split(line)
        gene    == Strip(parts[1])
        allele1 == Strip(parts[2])
        allele2 == Strip(parts[3])
        l0      == <<>>
        l1      == IF allele1 # <<>> /\ allele1 # Dash /\ allele1 # NotTyped
                   THEN Append(l0, allele1) ELSE l0
        l2      == IF allele2 # <<>> /\ allele2 # Dash /\ allele2 # NotTyped
                   THEN Append(l1, allele2) ELSE l1
    IN  IF line = <<>> THEN res
        ELSE IF Len(parts) >= 3 THEN Put(res, gene, l2)
        ELSE res

RECURSIVE parse_estimation_lines(_, _)
parse_estimation_lines(res, lines) ==
    IF lines = <<>> THEN res
    ELSE parse_estimation_lines(EstimationLine(res, Head(lines)), Tail(lines))

parse_estimation_result(lines) == parse_estimation_lines(EmptyDict, lines)

HlalaAlleles ==
    { <<"A", "*", "0", "1", "G">>, <<"A", "*", "0", "1", "N">>, <<"A", "*", "0", "1">>,
      <<"G", "*", "0", "1", "G">>, <<"H", "L", "A", "-", "A", "*", "0", "1">> }

HlalaLines ==
    {JoinTab(<<g, <<"1">>, a>>) : g \in {GeneA, <<"G">>}, a \in HlalaAlleles}
    \cup {JoinTab(<<GeneA, <<"1">>>>), <<>>}

\* merge_results.py, body of the loop of parse_hlala_result
HlalaLine(res, raw) ==
    LET line   == Strip(raw)
        parts  == Split(line)
        gene   == Strip(parts[1])
        allele == Strip(RemoveAll(Strip(parts[3]), "G"))
        r1     == IF gene \in DOMAIN res THEN res ELSE Put(res, gene, <<>>)
        named  == IF ~StartsWith(allele, HLA) THEN HLA \o allele ELSE allele
    IN  IF line = <<>> THEN res
        ELSE IF Len(parts) >= 3 THEN Put(r1, gene, Append(r1[gene], named))
        ELSE res

\* lines[1:]
Rest(lines) == IF lines = <<>> THEN <<>> ELSE Tail(lines)

RECURSIVE parse_hlala_lines(_, _)
parse_hlala_lines(res, lines) ==
    IF lines = <<>> THEN res
    ELSE parse_hlala_lines(HlalaLine(res, Head(lines)), Tail(lines))

\* the read loop of parse_hlala_result, once the bestguess file is found
parse_hlala_result(lines) == parse_hlala_lines(EmptyDict, Rest(lines))

\* csv.DictReader: the value of column col in a row, None (here the empty
\* string, equally false) when the row is too short or the column is missing
RowValue(header, fields, col) ==
    LET at == {i \in 1..Len(header) : header[i] = col}
        i  == CHOOSE j \in at : \A k \in at : k <= j
    IN  IF at = {} \/ i > Len(fields) THEN <<>> ELSE fields[i]

\* merge_results.py, body of the row loop of parse_optitype_result
OptitypeRow(header, res, raw) ==
    LET fields == Split(raw)
        Alleles(gene) ==
            LET v1 == Strip(RowValue(header, fields, gene \o <<"1">>))
                v2 == Strip(RowValue(header, fields, gene \o <<"2">>))
                l1 == IF v1 # <<>> THEN <<HLA \o v1>> ELSE <<>>
            IN  IF v2 # <<>> THEN Append(l1, HLA \o v2) ELSE l1
        Set(r, gene) == IF Alleles(gene) # <<>> THEN Put(r, gene, Alleles(gene)) ELSE r
    IN  IF raw = <<>> THEN res
        ELSE Set(Set(Set(res, GeneA), GeneB), GeneC)

RECURSIVE FoldRows(_, _, _)
FoldRows(header, res, lines) ==
    IF lines = <<>> THEN res
    ELSE FoldRows(header, OptitypeRow(header, res, Head(lines)), Tail(lines))

\* the read loop of parse_optitype_result, once a result file is chosen
ReadOptitype(lines) ==
    IF lines = <<>> THEN EmptyDict
    ELSE FoldRows(Split(Head(lines)), EmptyDict, Tail(lines))

(***************************************************************************)
(* The extractors run on their own, one loop iteration per step            *)
(***************************************************************************)
ReportExtractors == {"parse_report_file", "parse_hisat_report"}
Extractors == ReportExtractors \cup {"parse_estimation_result", "parse_hlala_result"}

ExtractorInputs(p) ==
    IF p \in ReportExtractors THEN SeqsUpTo(ReportLines, MaxLines)
    ELSE IF p = "parse_estimation_result" THEN SeqsUpTo(EstimationLines, MaxLines)
    ELSE SeqsUpTo(HlalaLines, MaxLines + 1)

\* what the extractor's loop iterates over
Items ==
    IF prog \in ReportExtractors THEN Findall(input)
    ELSE IF prog = "parse_hlala_result" THEN Rest(input)
    ELSE input

NoFs == [root_exists |-> FALSE, entries |-> EmptyDict]

ExtractInit ==
    /\ prog \in Extractors
    /\ input \in ExtractorInputs(prog)
    /\ pc = "loop"
    /\ idx = 0
    /\ results = EmptyDict
    /\ fs = NoFs
    /\ all_data = EmptyDict
    /\ samples = <<>>
    /\ picked = {}
    /\ docs = <<>>
    /\ exit_status = 0

RunUnchanged == UNCHANGED <<prog, fs, input, all_data, samples, picked, docs, exit_status>>

ReportLoop ==
    /\ prog = "parse_report_file" /\ pc = "loop" /\ idx < Len(Items)
    /\ LET st == ReportMatch([ok |-> TRUE, results |-> results], Items[idx + 1])
       IN  /\ results' = st.results
           /\ pc' = IF st.ok THEN "loop" ELSE "raised"
    /\ idx' = idx + 1
    /\ RunUnchanged

HisatLoop ==
    /\ prog = "parse_hisat_report" /\ pc = "loop" /\ idx < Len(Items)
    /\ LET st == HisatMatch([ok |-> TRUE, results |-> results], Items[idx + 1])
       IN  /\ results' = st.results
           /\ pc' = IF st.ok THEN "loop" ELSE "raised"
    /\ idx' = idx + 1
    /\ RunUnchanged

EstimationLoop ==
    /\ prog = "parse_estimation_result" /\ pc = "loop" /\ idx < Len(Items)
    /\ results' = EstimationLine(results, Items[idx + 1])
    /\ idx' = idx + 1
    /\ UNCHANGED pc
    /\ RunUnchanged

HlalaLoop ==
    /\ prog = "parse_hlala_result" /\ pc = "loop" /\ idx < Len(Items)
    /\ results' = HlalaLine(results, Items[idx + 1])
    /\ idx' = idx + 1
    /\ UNCHANGED pc
    /\ RunUnchanged

Return ==
    /\ prog \in Extractors /\ pc = "loop" /\ idx = Len(Items)
    /\ pc' = "return"
    /\ UNCHANGED <<idx, results>>
    /\ RunUnchanged

ExtractNext == ReportLoop \/ HisatLoop \/ EstimationLoop \/ HlalaLoop \/ Return

SpecExtract == ExtractInit /\ [][ExtractNext]_vars

(***************************************************************************)
(* Sorting                                                                 *)
(***************************************************************************)
\* the orders the scripts sort by: rank of a call, allele name of a call,
\* a string, a sample name
Before(key, x, y) ==
    CASE key = "rank" -> x.rank < y.rank
      [] key = "allele" -> StrLess(x.allele, y.allele)
      [] key = "str" -> StrLess(x, y)
      [] key = "name" -> x < y

\* list.sort(key) / sorted(key=): a stable sort, here by insertion
RECURSIVE InsertSorted(_, _, _)
InsertSorted(key, sorted, x) ==
    IF sorted = <<>> THEN <<x>>
    ELSE IF Before(key, x, Head(sorted)) THEN <<x>> \o sorted
    ELSE <<Head(sorted)>> \o InsertSorted(key, Tail(sorted), x)

RECURSIVE SortedFrom(_, _, _)
SortedFrom(key, acc, rest) ==
    IF rest = <<>> THEN acc
    ELSE SortedFrom(key, InsertSorted(key, acc, Head(rest)), Tail(rest))

Sorted(key, list) == SortedFrom(key, <<>>, list)

\* sorted(a set): its elements in increasing order
RECURSIVE SortedSet(_, _)
SortedSet(key, S) ==
    IF S = {} THEN <<>>
    ELSE LET m == CHOOSE x \in S : \A y \in S \ {x} : Before(key, x, y)
         IN  <<m>> \o SortedSet(key, S \ {m})

(***************************************************************************)
(* The directory trees of a run                                            *)
(***************************************************************************)
SampleNames == 1..MaxSamples
FileNames == 1..MaxFiles

Line(r, g, ab) == [rank |-> r, gene |-> g, allele |-> <<"0", "1", ":", "0", "1">>, abundance |-> ab]

ReportS1 == <<Line(<<"1">>, GeneA, <<"5", "5", ".", "5", "0">>)>>
ReportMixed ==
    <<Line(<<"2">>, GeneA, <<"7">>), Line(<<"1">>, GeneA, <<"5", "5", ".", "5", "0">>),
      Line(<<"3">>, GeneB, <<"7">>)>>
ReportNoMatch == <<Line(<<"1">>, <<"a">>, <<"7">>)>>
ReportMalformed == <<Line(<<"1">>, GeneA, <<"1", ".", "2", ".", "3">>)>>

RunReports == {ReportS1, ReportMixed, ReportNoMatch, ReportMalformed}

NoFiles == [f \in {} |-> <<>>]
Absent == [exists |-> FALSE, lines |-> <<>>]
Present(lines) == [exists |-> TRUE, lines |-> lines]

EstimationFile ==
    <<JoinTab(<<GeneA, A0101, NotTyped>>), JoinTab(<<GeneC, Dash, <<"C", "*", "0", "7">>>>)>>

HlalaFile ==
    <<JoinTab(<<<<"L">>, <<"C">>, <<"A">>>>), JoinTab(<<GeneB, <<"1">>, <<"B", "*", "0", "7", "G">>>>)>>

OptitypeHeader ==
    JoinTab(<<<<"A", "1">>, <<"A", "2">>, <<"B", "1">>, <<"B", "2">>, <<"C", "1">>, <<"C", "2">>>>)

OptitypeFile(f) ==
    IF f = 1
    THEN <<OptitypeHeader,
           JoinTab(<<<<"A", "*", "0", "2">>, <<"A", "*", "0", "3">>, <<>>, <<>>,
                     <<"C", "*", "0", "7">>, <<"C", "*", "0", "7">>>>)>>
    ELSE <<OptitypeHeader, JoinTab(<<<<"A", "*", "0", "3">>, <<"A", "*", "0", "2">>>>)>>

NotADirectory ==
    [is_dir |-> FALSE, reports |-> NoFiles, estimation |-> Absent,
     optitype |-> NoFiles, hlala |-> Absent]

Dir(r, e, o, h) == [is_dir |-> TRUE, reports |-> r, estimation |-> e, optitype |-> o, hlala |-> h]

\* a directory with one report, or with MaxFiles reports of which the first
\* in name order has content c1 and the others c2
OneReport(c) == [f \in {1} |-> c]
ManyReports(c1, c2) == [f \in FileNames |-> IF f = 1 THEN c1 ELSE c2]

\* sample directories of hisat.output as generate_html_table.py sees them
TableEntries ==
    {NotADirectory} \cup
    {Dir(r, Absent, NoFiles, Absent) :
        r \in {NoFiles} \cup {OneReport(c) : c \in RunReports}
              \cup {ManyReports(ReportMixed, ReportS1), ManyReports(ReportS1, ReportNoMatch),
                    ManyReports(ReportNoMatch, ReportMalformed)}}

OneOptitype == [f \in {1} |-> OptitypeFile(1)]
AllOptitype == [f \in FileNames |-> OptitypeFile(f)]

\* sample directories with the artifacts of the four methods of merge_results.py:
\* the comparison methods all missing, one of them present, or all present
MergeEntries ==
    {NotADirectory} \cup
    {Dir(r, a[1], a[2], a[3]) :
        r \in {NoFiles, OneReport(ReportS1), OneReport(ReportMalformed),
               ManyReports(ReportMixed, ReportS1)},
        a \in {<<Absent, NoFiles, Absent>>, <<Present(EstimationFile), NoFiles, Absent>>,
               <<Absent, OneOptitype, Absent>>, <<Absent, NoFiles, Present(HlalaFile)>>,
               <<Present(EstimationFile), AllOptitype, Present(HlalaFile)>>}}

Trees(Entries) ==
    {NoFs} \cup
    {[root_exists |-> TRUE, entries |-> e] : e \in UNION {[S -> Entries] : S \in SUBSET SampleNames}}

\* enumeration orders a directory scan may yield for a set of files
Orders(S) == {p \in [1..Cardinality(S) -> S] : \A i, j \in 1..Cardinality(S) : p[i] = p[j] => i = j}

\* sorted(path.iterdir())
Listing == SortedSet("name", DOMAIN fs.entries)

\* files[0]
First(files) == files[1]

\* what one glob()[0] did: the candidates and the file taken
Pick(name, pattern, cands, order) ==
    [sample |-> name, pattern |-> pattern, candidates |-> cands, file |-> First(order)]

(***************************************************************************)
(* generate_html_table.py                                                  *)
(***************************************************************************)
AllGenes(data) == UNION {DOMAIN data[s] : s \in DOMAIN data}

NoDataCell == [nodata |-> TRUE, entries |-> <<>>]

\* one <td> of the sample x gene table, and the list it leaves in all_data
TableCell(data, sample, gene) ==
    IF sample \in DOMAIN data /\ gene \in DOMAIN data[sample]
    THEN [nodata |-> FALSE, entries |-> Sorted("rank", data[sample][gene])]
    ELSE NoDataCell

\* generate_html_table: the document written, and all_data after the in-place sorts
generate_html_table(data, cols, rows) ==
    [doc  |-> [kind |-> "table", file |-> 0, header |-> cols,
               rows |-> [i \in 1..Len(rows) |->
                            [gene |-> rows[i],
                             cells |-> [j \in 1..Len(cols) |-> TableCell(data, cols[j], rows[i])]]]],
     data |-> [s \in DOMAIN data |->
                  [g \in DOMAIN data[s] |->
                      IF (\E j \in 1..Len(cols) : cols[j] = s) /\ (\E i \in 1..Len(rows) : rows[i] = g)
                      THEN Sorted("rank", data[s][g]) ELSE data[s][g]]]]

RunInit(p, Entries) ==
    /\ prog = p
    /\ fs \in Trees(Entries)
    /\ pc = "start"
    /\ idx = 0
    /\ input = <<>>
    /\ results = EmptyDict
    /\ all_data = EmptyDict
    /\ samples = <<>>
    /\ picked = {}
    /\ docs = <<>>
    /\ exit_status = 0

Exit(status) == pc' = "exit" /\ exit_status' = status

\* "if results:" in collect_all_results
KeepSampleAlways(res) == TRUE

KeepSample(res) == res # EmptyDict

\* collect_all_results on a missing root, then main's "No data found!" return
TableNoRoot ==
    /\ prog = "table" /\ pc = "start" /\ ~fs.root_exists
    /\ Exit(0)
    /\ UNCHANGED <<prog, fs, input, idx, results, all_data, samples, picked, docs>>

TableRoot ==
    /\ prog = "table" /\ pc = "start" /\ fs.root_exists
    /\ pc' = "collect"
    /\ UNCHANGED <<prog, fs, input, idx, results, all_data, samples, picked, docs, exit_status>>

\* one iteration of the loop of collect_all_results
TableCollect ==
    /\ prog = "table" /\ pc = "collect" /\ idx < Len(Listing)
    /\ idx' = idx + 1
    /\ LET name == Listing[idx + 1]
           e    == fs.entries[name]
       IN  IF ~e.is_dir \/ DOMAIN e.reports = {}
           THEN UNCHANGED <<pc, exit_status, all_data, samples, picked>>
           ELSE \E order \in Orders(DOMAIN e.reports) :
                  LET p  == Pick(name, "*.report", DOMAIN e.reports, order)
                      st == parse_report_file(e.reports[p.file])
                  IN  /\ picked' = picked \cup {p}
                      /\ IF ~st.ok
                         THEN Exit(1) /\ UNCHANGED <<all_data, samples>>
                         ELSE /\ UNCHANGED <<pc, exit_status>>
                              /\ IF KeepSample(st.results)
                                 THEN /\ samples' = Append(samples, name)
                                      /\ all_data' = Put(all_data, name, st.results)
                                 ELSE UNCHANGED <<all_data, samples>>
    /\ UNCHANGED <<prog, fs, input, results, docs>>

\* collect_all_results returns; main stops when all_data is empty
TableCollected ==
    /\ prog = "table" /\ pc = "collect" /\ idx = Len(Listing)
    /\ samples' = Sorted("name", samples)
    /\ IF all_data = EmptyDict THEN Exit(0) ELSE pc' = "render" /\ UNCHANGED exit_status
    /\ UNCHANGED <<prog, fs, input, idx, results, all_data, picked, docs>>

TableRender ==
    /\ prog = "table" /\ pc = "render"
    /\ LET out == generate_html_table(all_data, samples, SortedSet("str", AllGenes(all_data)))
       IN  /\ docs' = Append(docs, out.doc)
           /\ all_data' = out.data
    /\ Exit(0)
    /\ UNCHANGED <<prog, fs, input, idx, results, samples, picked>>

(***************************************************************************)
(* merge_results.py                                                        *)
(***************************************************************************)
Methods == {"optitype", "hlala", "estimation", "hisat"}

\* collect_sample_data failing when the estimation result file is missing
collect_sample_data_strict(name, e, reportOrder, tsvOrder) ==
    LET hisat == IF DOMAIN e.reports # {} THEN parse_hisat_report(e.reports[First(reportOrder)])
                 ELSE Fresh
    IN  [ok     |-> hisat.ok /\ e.estimation.exists,
         sample |-> name,
         hisat  |-> hisat.results,
         estimation |-> IF e.estimation.exists THEN parse_estimation_result(e.estimation.lines)
                        ELSE EmptyDict,
         optitype |-> IF DOMAIN e.optitype # {} THEN ReadOptitype(e.optitype[First(tsvOrder)])
                      ELSE EmptyDict,
         hlala  |-> IF e.hlala.exists THEN parse_hlala_result(e.hlala.lines) ELSE EmptyDict]

\* collect_sample_data, given the enumeration orders of its two globs
collect_sample_data(name, e, reportOrder, tsvOrder) ==
    LET hisat == IF DOMAIN e.reports # {} THEN parse_hisat_report(e.reports[First(reportOrder)])
                 ELSE Fresh
    IN  [ok     |-> hisat.ok,
         sample |-> name,
         hisat  |-> hisat.results,
         estimation |-> IF e.estimation.exists THEN parse_estimation_result(e.estimation.lines)
                        ELSE EmptyDict,
         optitype |-> IF DOMAIN e.optitype # {} THEN ReadOptitype(e.optitype[First(tsvOrder)])
                      ELSE EmptyDict,
         hlala  |-> IF e.hlala.exists THEN parse_hlala_result(e.hlala.lines) ELSE EmptyDict]

\* one <td> of the gene x method table
MethodCell(res, gene, key) ==
    IF gene \in DOMAIN res /\ res[gene] # <<>>
    THEN [nodata |-> FALSE, entries |-> Sorted(key, res[gene])]
    ELSE NoDataCell

\* generate_sample_html: the document written
generate_sample_html(data) ==
    LET all_genes == SortedSet("str", DOMAIN data.hisat \cup DOMAIN data.estimation
                                        \cup DOMAIN data.optitype \cup DOMAIN data.hlala)
    IN  [kind |-> "comparison", file |-> data.sample,
         header |-> <<"optitype", "hlala", "estimation", "hisat">>,
         rows |-> [i \in 1..Len(all_genes) |->
                     [gene |-> all_genes[i],
                      cells |-> [optitype   |-> MethodCell(data.optitype, all_genes[i], "str"),
                                 hlala      |-> MethodCell(data.hlala, all_genes[i], "str"),
                                 estimation |-> MethodCell(data.estimation, all_genes[i], "str"),
                                 hisat      |-> MethodCell(data.hisat, all_genes[i], "allele")]]]]

\* The body of the loop of main for every sample directory and every pair of
\* enumeration orders a run can meet: the data collect_sample_data returns
\* and the document generate_sample_html writes from it.
SampleRuns ==
    UNION {{<<n, e, ro, to>> : n \in SampleNames, ro \in Orders(DOMAIN e.reports),
                               to \in Orders(DOMAIN e.optitype)} : e \in MergeEntries}

ProcessSample ==
    [k \in SampleRuns |->
        LET data == collect_sample_data(k[1], k[2], k[3], k[4])
        IN  [data |-> data, doc |-> generate_sample_html(data)]]

\* the names of the directories among sorted(hisat_path.iterdir())
SampleDirs == SelectSeq(Listing, LAMBDA n : fs.entries[n].is_dir)

MergeNoRoot ==
    /\ prog = "merge" /\ pc = "start" /\ ~fs.root_exists
    /\ Exit(0)
    /\ UNCHANGED <<prog, fs, input, idx, results, all_data, samples, picked, docs>>

MergeRoot ==
    /\ prog = "merge" /\ pc = "start" /\ fs.root_exists
    /\ samples' = SampleDirs
    /\ pc' = "process"
    /\ UNCHANGED <<prog, fs, input, idx, results, all_data, picked, docs, exit_status>>

\* one iteration of the loop of main: collect_sample_data, generate_sample_html
MergeSample ==
    /\ prog = "merge" /\ pc = "process" /\ idx < Len(samples)
    /\ idx' = idx + 1
    /\ LET name == samples[idx + 1]
           e    == fs.entries[name]
       IN  \E ro \in Orders(DOMAIN e.reports), to \in Orders(DOMAIN e.optitype) :
              LET data == ProcessSample[<<name, e, ro, to>>].data
              IN  /\ picked' = picked
                        \cup (IF ro = <<>> THEN {} ELSE {Pick(name, "*.report", DOMAIN e.reports, ro)})
                        \cup (IF to = <<>> THEN {} ELSE {Pick(name, "*_result.tsv", DOMAIN e.optitype, to)})
                  /\ results' = data
                  /\ IF ~data.ok
                     THEN Exit(1) /\ UNCHANGED docs
                     ELSE /\ docs' = Append(docs, ProcessSample[<<name, e, ro, to>>].doc)
                          /\ UNCHANGED <<pc, exit_status>>
    /\ UNCHANGED <<prog, fs, input, all_data, samples>>

MergeDone ==
    /\ prog = "merge" /\ pc = "process" /\ idx = Len(samples)
    /\ Exit(0)
    /\ UNCHANGED <<prog, fs, input, idx, results, all_data, samples, picked, docs>>

(***************************************************************************)
(* Runs of the two scripts                                                 *)
(***************************************************************************)
Init == RunInit("table", TableEntries) \/ RunInit("merge", MergeEntries)

Next ==
    \/ TableNoRoot \/ TableRoot \/ TableCollect \/ TableCollected \/ TableRender
    \/ MergeNoRoot \/ MergeRoot \/ MergeSample \/ MergeDone

Spec == Init /\ [][Next]_vars

MergeNext == MergeNoRoot \/ MergeRoot \/ MergeSample \/ MergeDone

\* A run of merge_results.py is a single sequential process: it keeps taking
\* steps until it exits.
SpecLive == RunInit("merge", MergeEntries) /\ [][MergeNext]_vars /\ WF_vars(MergeNext)

(***************************************************************************)
(* Properties of the extractors (SpecExtract)                              *)
(***************************************************************************)
Matches == Findall(input)

Malformed(m) == ~ParseFloat(m.abundance).ok

\* the extractor converts the abundance of this match
Kept(m) == prog = "parse_report_file" \/ ParseInt(m.rank) <= 2

\* C3 as stated: in both ranked-report extractors a match whose abundance is
\* not a well-formed number makes the extraction fail, whatever its rank.
C3_MalformedAlwaysFails ==
    (prog \in ReportExtractors /\ idx >= 1 /\ Malformed(Matches[idx])) => pc = "raised"

\* C3 amended: parse_report_file fails on every match with a malformed
\* abundance; parse_hisat_report fails on such a match only when its rank is
\* at most 2 and drops it unparsed when its rank is above 2.  An extraction
\* fails only at such a match, and every stored abundance is the value of the
\* abundance token of a processed match.
C3_MalformedFailsWhenKept ==
    prog \in ReportExtractors =>
        /\ (idx >= 1 /\ Malformed(Matches[idx]) /\ Kept(Matches[idx])) => pc = "raised"
        /\ (idx >= 1 /\ Malformed(Matches[idx]) /\ ~Kept(Matches[idx])) => pc # "raised"
        /\ pc = "raised" => (idx >= 1 /\ Malformed(Matches[idx]) /\ Kept(Matches[idx]))
        /\ pc = "return" => \A i \in 1..Len(Matches) : Malformed(Matches[i]) => ~Kept(Matches[i])
        /\ \A g \in DOMAIN results : \A k \in 1..Len(results[g]) :
              \E i \in 1..idx :
                  /\ Matches[i].gene = g /\ ~Malformed(Matches[i])
                  /\ results[g][k].abundance = ParseFloat(Matches[i].abundance).value

C3_Witness ==
    /\ prog = "parse_hisat_report" /\ pc = "raised" /\ idx = 2
    /\ Matches[1].abundance = <<"1", ".", "2", ".", "3">> /\ ParseInt(Matches[1].rank) = 3
    /\ Matches[2].abundance = <<".">> /\ ParseInt(Matches[2].rank) = 2

\* the matches of gene g, all of them or those the extractor keeps
ExpectedCalls(g, all) == SelectSeq(Matches, LAMBDA m : m.gene = g /\ (all \/ Kept(m)))

MatchedGenes == {Matches[i].gene : i \in 1..Len(Matches)}

CallsAgree(all) ==
    /\ DOMAIN results = MatchedGenes
    /\ \A g \in DOMAIN results :
          /\ Len(results[g]) = Len(ExpectedCalls(g, all))
          /\ \A k \in 1..Len(results[g]) :
                LET m == ExpectedCalls(g, all)[k]
                IN  /\ results[g][k].rank = ParseInt(m.rank)
                    /\ results[g][k].abundance = ParseFloat(m.abundance).value
                    /\ results[g][k].allele =
                          (IF prog = "parse_report_file" THEN m.allele
                           ELSE HLA \o g \o <<"*">> \o m.allele)

\* C4 as stated: the ranked-report extractor returns, for each gene, one call
\* for every match of that gene, in encounter order and whatever its rank.
C4_EveryMatchReturned ==
    (prog \in ReportExtractors /\ pc = "return") => CallsAgree(TRUE)

\* C4 amended: parse_report_file returns one call for every match of a gene,
\* in encounter order and whatever its rank; parse_hisat_report returns one
\* call for every match of rank at most 2, in encounter order, and itself
\* drops the matches of rank above 2 (their gene stays a key of the result).
C4_MatchesReturnedAsKept ==
    (prog \in ReportExtractors /\ pc = "return") => CallsAgree(FALSE)

C4_Witness ==
    /\ prog = "parse_report_file" /\ pc = "return"
    /\ \E g \in DOMAIN results :
          Len(results[g]) = 2 /\ results[g][1].rank = 3 /\ results[g][2].rank = 3

\* the line handled by the last iteration of a line loop
LastLine == Items[idx]

DropMarker(a) ==
    IF a # <<>> /\ a[Len(a)] \in {"G", "N"} THEN SubSeq(a, 1, Len(a) - 1) ELSE a

\* C5: for every data line of a best-guess file the stored allele is
\* "HLA-" followed by column 2 with only its single trailing G or N removed.
C5_OnlyTrailingMarkerStripped ==
    (prog = "parse_hlala_result" /\ idx >= 1 /\ Len(Split(Strip(LastLine))) >= 3) =>
        LET parts == Split(Strip(LastLine))
            gene  == Strip(parts[1])
        IN  /\ gene \in DOMAIN results /\ results[gene] # <<>>
            /\ results[gene][Len(results[gene])] = HLA \o DropMarker(Strip(parts[3]))

SentinelFree ==
    \A g \in DOMAIN results : \A k \in 1..Len(results[g]) :
        results[g][k] \notin {Dash, NotTyped, <<>>}

ExampleLine == JoinTab(<<GeneA, A0101, NotTyped>>)

ExampleYieldsOne == (idx >= 1 /\ LastLine = ExampleLine) => results[GeneA] = <<A0101>>

ShortLineSkipped ==
    (pc = "loop" /\ idx < Len(input) /\ Len(Split(input[idx + 1])) < 3) =>
        (results' = results /\ pc' = "loop")

\* C6: the sequences returned by parse_estimation_result never contain "-",
\* "Not typed" or an empty placeholder; the line A, A*01:01, Not typed yields
\* a sequence of length 1 for A; a line with fewer than 3 tab-separated
\* columns is skipped without an error and leaves the result unchanged.
C6_SentinelsExcluded ==
    /\ [](prog = "parse_estimation_result" => (SentinelFree /\ ExampleYieldsOne /\ pc # "raised"))
    /\ [][prog = "parse_estimation_result" => ShortLineSkipped]_vars

C6_Witness ==
    /\ prog = "parse_estimation_result" /\ pc = "return" /\ idx = 2
    /\ input[1] = JoinTab(<<GeneA, A0101>>)
    /\ input[2] = ExampleLine
    /\ results = Put(EmptyDict, GeneA, <<A0101>>)

(***************************************************************************)
(* Properties of the runs (Spec, SpecLive)                                 *)
(***************************************************************************)
Directories == {n \in DOMAIN fs.entries : fs.entries[n].is_dir}

Range(seq) == {seq[i] : i \in 1..Len(seq)}

Min(S) == CHOOSE x \in S : \A y \in S : x <= y

\* the report picked for a sample by glob('*.report')[0]
ReportOf(n) == CHOOSE p \in picked : p.sample = n /\ p.pattern = "*.report"

HasReport(n) == \E p \in picked : p.sample = n /\ p.pattern = "*.report"

PickedText(n) == fs.entries[n].reports[ReportOf(n).file]

Collected == prog = "table" /\ pc = "render"

MalformedRecord ==
    \E p \in picked :
        /\ p.pattern = "*.report"
        /\ LET text == fs.entries[p.sample].reports[p.file]
           IN  IF prog = "table" THEN ~parse_report_file(text).ok
               ELSE ~parse_hisat_report(text).ok

\* C2: a run whose input root does not exist ends in a failure
\* status and emits no document; a run whose root exists ends in success
\* even if some samples contributed no data.
C2_MissingRootIsFailure ==
    pc = "exit" =>
        IF ~fs.root_exists THEN exit_status # 0 /\ docs = <<>>
        ELSE (~MalformedRecord => exit_status = 0)

MissingFor(method, e) ==
    CASE method = "hisat" -> DOMAIN e.reports = {}
      [] method = "estimation" -> ~e.estimation.exists
      [] method = "optitype" -> DOMAIN e.optitype = {}
      [] method = "hlala" -> ~e.hlala.exists

Failed == pc = "exit" /\ exit_status # 0

C7_Safety ==
    /\ pc # "start" => samples = SortedSet("name", Directories)
    /\ Len(docs) = (IF Failed THEN idx - 1 ELSE idx)
    /\ \A k \in 1..Len(docs) :
          /\ docs[k].kind = "comparison" /\ docs[k].file = samples[k]
          /\ \A method \in Methods :
                MissingFor(method, fs.entries[samples[k]]) =>
                    \A i \in 1..Len(docs[k].rows) : docs[k].rows[i].cells[method] = NoDataCell
    /\ Failed =>
          /\ ~MissingFor("hisat", fs.entries[samples[idx]])
          /\ ~parse_hisat_report(PickedText(samples[idx])).ok

C7_Finished ==
    /\ pc = "exit"
    /\ (fs.root_exists /\ ~Failed) =>
          \A n \in Directories : Cardinality({k \in 1..Len(docs) : docs[k].file = n}) = 1

\* C7: in a comparison run whose input root exists a missing artifact never
\* stops the run: the run stops early only on a report that is present and
\* malformed, it otherwise ends with exactly one comparison document for
\* every sample directory, written in sorted sample order, and a method whose
\* artifact is missing shows the no-data marker in every gene row.
C7_MissingArtifactNeverStops ==
    /\ [](prog = "merge" => C7_Safety)
    /\ <>(prog = "merge" => C7_Finished)

C7_Witness ==
    /\ prog = "merge" /\ pc = "exit" /\ exit_status = 0 /\ Len(docs) = 2
    /\ MissingFor("hisat", fs.entries[1]) /\ ~MissingFor("estimation", fs.entries[1])
    /\ MissingFor("hlala", fs.entries[1]) /\ MissingFor("optitype", fs.entries[1])
    /\ Len(docs[1].rows) = 2
    /\ \A method \in Methods : MissingFor(method, fs.entries[2])
    /\ docs[2].rows = <<>>

TableDocs == {k \in 1..Len(docs) : docs[k].kind = "table"}

\* C8: in the sample x gene table written from a Corpus built by
\* collect_all_results every cell holds the no-data marker or at least one
\* (rank, allele, abundance) entry, never nothing, and the cell of a gene
\* absent from a sample holds the no-data marker.
C8_NoEmptyCell ==
    \A k \in TableDocs :
        /\ docs[k].header = samples
        /\ {docs[k].rows[i].gene : i \in 1..Len(docs[k].rows)} = AllGenes(all_data)
        /\ \A i \in 1..Len(docs[k].rows) : \A j \in 1..Len(samples) :
              LET cell == docs[k].rows[i].cells[j]
              IN  /\ cell = NoDataCell \/ (~cell.nodata /\ Len(cell.entries) >= 1)
                  /\ docs[k].rows[i].gene \notin DOMAIN all_data[samples[j]] => cell = NoDataCell

C8_Witness ==
    \E k \in TableDocs :
        /\ Len(docs[k].rows) = 2 /\ Len(docs[k].header) = 2
        /\ docs[k].rows[2].cells[1] = NoDataCell
        /\ Len(docs[k].rows[1].cells[2].entries) = 2

\* C9: of several files matching a discovery pattern the locator picks the
\* first in lexicographic order, whatever the enumeration order of the
\* directory.
C9_PicksLexicographicFirst == \A p \in picked : p.file = Min(p.candidates)

\* C10: rendering leaves the Corpus unchanged; after
\* generate_html_table returns every gene's stored sequence of calls is the
\* same sequence, in encounter order, as before the call.
C10_RenderingLeavesCorpus == [][(prog = "table" /\ pc = "render") => all_data' = all_data]_vars

====
